---- MODULE Spec2Model ----
(***************************************************************************)
(* US Chess Tournament Radar: the browser page of src/app.js (feed loader, *)
(* filter/sort pipeline, render layer, handlers of bind) over the helpers  *)
(* of src/utils.js.                                                        *)
(*                                                                         *)
(* JavaScript values are modelled by tagged records so that values of      *)
(* different JavaScript types can be compared: a number is [n |-> i] or    *)
(* NaN, a date string is [iso |-> ms], a storage item is [raw |-> ...].    *)
(* Times are milliseconds. Coordinates are 1/10000 degree, angles          *)
(* micro-radians, trigonometric values millionths, distances 1/100 mile.   *)
(***************************************************************************)
EXTENDS Integers, Sequences, FiniteSets, TLC

VARIABLES
    now,            \* Date.now(), ms
    localStorage,   \* durable store: key -> item
    seeded,         \* the array object FALLBACK_EVENTS (data.js)
    appState,       \* app.js:487 appState {allEvents, selectedState, city}
    ui,             \* the DOM the handlers write (app.js:473)
    loads,          \* the loadEvents calls of init and of Refresh
    geo,            \* geocode requests in flight, oldest first
    page,           \* "boot" until init() has run, then "ready"
    last,           \* history: the step taken last, and what the network gave it
    fallbackAt,     \* history: when a load last ended in the fallback path,
                    \* with no forced refresh since; Never if there is none
    fetchedAt,      \* history: when a feed fetch last succeeded; Never if none has
    sessionStorage, \* session-scoped store: key -> item
    details         \* the details view: how it was reached, its query, what it shows

vars == <<now, localStorage, seeded, appState, ui, loads, geo, page, last, fallbackAt,
          fetchedAt, sessionStorage, details>>

sessionVars == <<sessionStorage, details>>

----------------------------------------------------------------------------
(* Program constants, src/utils.js:1-4                                     *)

CACHE_KEY == "us-chess-radar-events-v1"
CITY_KEY == "us-chess-radar-city-v1"
CACHE_TTL_MS == 24 * 60 * 60 * 1000
SEARCH_RADIUS_MILES == 100

----------------------------------------------------------------------------
(* Bounds of the model                                                     *)

\* the clock advances in steps of StepMs, MaxTicks times
MaxTicks == 2
\* longest event list the filter pipeline is run on
MaxLen == 3
\* geocode requests in flight at once
MaxGeo == 2
HourMs == 60 * 60 * 1000
StepMs == 12 * HourMs
\* the first instant of a behaviour: late enough that older stamps exist
T0 == 4 * CACHE_TTL_MS

----------------------------------------------------------------------------
(* Numbers. Math.sin, Math.cos, Math.asin and Math.sqrt on IEEE doubles    *)
(* are computed in fixed point: TrigScale units per 1.0 and per radian.    *)

NaN == [js |-> "number", nan |-> TRUE]
Num(i) == [js |-> "number", n |-> i]
isNaN(x) == x = NaN

TrigScale == 10 ^ 6
\* the scale of the haversine term a, which needs more digits than a sine
FineScale == 10 ^ 9
\* coordinates: units per degree
CoordScale == 10 ^ 4
\* distances: units per mile
MilesScale == 10 ^ 2
\* Math.PI in micro-radians
PI_MICRO == 3141593
\* R = 3958.8 miles, in 1/100 mile
R_CENTI == 395880

Abs(x) == IF x < 0 THEN -x ELSE x
Sign(x) == IF x < 0 THEN -1 ELSE 1
Min(x, y) == IF x < y THEN x ELSE y

\* floor(a * b / TrigScale) for 0 <= a, b, computed without leaving 32 bits
Mul(a, b) ==
    LET ah == a \div 1000  al == a % 1000
        bh == b \div 1000  bl == b % 1000
    IN  ah * bh + ((ah * bl + al * bh + ((al * bl) \div 1000)) \div 1000)

\* s * s at FineScale, for a sine s at TrigScale
Square(s) ==
    LET h == Abs(s) \div 1000  l == Abs(s) % 1000
    IN  h * h * 1000 + 2 * h * l + ((l * l) \div 1000)

\* c * v at FineScale, for c at TrigScale and v at FineScale
MulFine(c, v) == c * (v \div TrigScale) + Mul(c, v % TrigScale)

\* utils.js:14 toRad = (deg) => (deg * Math.PI) / 180
toRad(deg) == Sign(deg) * ((Mul(Abs(deg), PI_MICRO) * 5) \div 9)

\* x / 2, rounding towards zero as a sign-symmetric float division does
Half(x) == Sign(x) * (Abs(x) \div 2)

\* one step of the sine series in Horner form: 1 - z2 * inner / k
Horner(z2, k, inner) == TrigScale - (Mul(z2, inner) \div k)

\* z - z^3/3! + z^5/5! - ... + z^9/9! - z^11/11!, with z2 = z * z
SinSeries(z, z2) ==
    Mul(z, Horner(z2, 6, Horner(z2, 20, Horner(z2, 42, Horner(z2, 72,
           Horner(z2, 110, TrigScale))))))

SinOf(z) == SinSeries(z, Mul(z, z))

\* Math.sin on [0, pi]: the series about 0, after folding at pi/2
SinPos(x) ==
    SinOf(IF x > PI_MICRO \div 2 THEN PI_MICRO - x ELSE IF x < 0 THEN 0 ELSE x)

\* Math.sin on [-pi, pi]
Sin(x) == Sign(x) * SinPos(Abs(x))

\* Math.cos on [-pi/2, pi/2]
Cos(x) == SinPos((PI_MICRO \div 2) - Abs(x))

\* r * r <= a exactly, for r at TrigScale and a at FineScale: Square(r) drops
\* the last three digits of r * r, which count when the rest equals a
SquareLeq(r, a) ==
    \/ Square(r) < a
    \/ Square(r) = a /\ ((r % 1000) * (r % 1000)) % 1000 = 0

\* Math.sqrt of a at FineScale, as a value at TrigScale: the largest r with
\* r * r <= a, so that the root of 0 is 0
RECURSIVE SqrtIn(_, _, _)
SqrtIn(a, lo, hi) ==
    IF lo >= hi THEN lo
    ELSE IF SquareLeq((lo + hi + 1) \div 2, a)
    THEN SqrtIn(a, (lo + hi + 1) \div 2, hi)
    ELSE SqrtIn(a, lo, ((lo + hi + 1) \div 2) - 1)

Sqrt(a) == SqrtIn(a, 0, TrigScale)

\* Math.asin on [0, 1]: the largest angle in [0, pi/2] whose sine is <= r
RECURSIVE AsinIn(_, _, _)
AsinIn(r, lo, hi) ==
    IF lo >= hi THEN lo
    ELSE IF SinPos((lo + hi + 1) \div 2) <= r
    THEN AsinIn(r, (lo + hi + 1) \div 2, hi)
    ELSE AsinIn(r, lo, ((lo + hi + 1) \div 2) - 1)

Asin(r) == AsinIn(r, 0, PI_MICRO \div 2)

\* the haversine term with the cosine of the first latitude taken twice
haversineOfFirst(dLat, dLon, rad1, rad2) ==
    Mul(2 * R_CENTI,
        Asin(Sqrt(Min(Square(Sin(Half(dLat)))
                      + MulFine(Mul(Cos(rad1), Cos(rad1)), Square(Sin(Half(dLon)))),
                      FineScale))))

\* utils.js:18-21: a, then 2 * R * Math.asin(Math.sqrt(a)), from the angles
haversineOf(dLat, dLon, rad1, rad2) ==
    Mul(2 * R_CENTI,
        Asin(Sqrt(Min(Square(Sin(Half(dLat)))
                      + MulFine(Mul(Cos(rad1), Cos(rad2)), Square(Sin(Half(dLon)))),
                      FineScale))))

\* utils.js:13 haversineMiles on numbers (coordinates in, 1/100 mile out)
haversineNum(lat1, lon1, lat2, lon2) ==
    haversineOf(toRad(lat2 - lat1), toRad(lon2 - lon1), toRad(lat1), toRad(lat2))

\* Dallas, TX (32.7767, -96.7970), the anchor of the spec's scenario
DallasLat == 32 * CoordScale + 7767
DallasLon == 0 - (96 * CoordScale + 7970)
\* the offset in latitude that is 100.00 miles; one unit more is 100.01
EdgeOffset == CoordScale + 4476
FortWorthLat == 32 * CoordScale + 7555
FortWorthLon == 0 - (97 * CoordScale + 3308)
LosAngelesLat == 34 * CoordScale + 522
LosAngelesLon == 0 - (118 * CoordScale + 2437)

\* the anchors and the venues of the model
AnchorPlaces == {<<DallasLat, DallasLon>>, <<LosAngelesLat, LosAngelesLon>>}
Venues ==
    {<<DallasLat, DallasLon>>, <<FortWorthLat, FortWorthLon>>,
     <<DallasLat + EdgeOffset, DallasLon>>, <<DallasLat + EdgeOffset + 1, DallasLon>>,
     <<LosAngelesLat, LosAngelesLon>>}

\* haversineNum between them, worked out once
Distances ==
    {<<a, v, haversineNum(a[1], a[2], v[1], v[2])>> : a \in AnchorPlaces, v \in Venues}

\* haversineNum, looked up in Distances where the pair is there
haversineLookup(from, to, known) ==
    IF known = {} THEN haversineNum(from[1], from[2], to[1], to[2])
    ELSE (CHOOSE d \in known : TRUE)[3]

----------------------------------------------------------------------------
(* JavaScript values                                                       *)

Null == [js |-> "null"]
Undefined == [js |-> "undefined"]
\* a string that is no date and no number, such as "abc"
Text == [js |-> "string", text |-> "abc"]
EmptyString == [js |-> "string", text |-> ""]
\* a date string: new Date(s).getTime() is ms
Iso(ms) == [js |-> "string", iso |-> ms]
\* a numeric string such as "32.7767": Number(s) is i
NumStr(i) == [js |-> "string", num |-> i]
Array(items) == [js |-> "array", items |-> items]

isArray(x) == x.js = "array"

\* ToBoolean: what !x, x || y and x ? a : b test
truthy(x) ==
    CASE x.js \in {"null", "undefined"} -> FALSE
      [] x.js = "number" -> ~isNaN(x) /\ x.n # 0
      [] x.js = "string" -> x # EmptyString
      [] OTHER -> TRUE

\* null or undefined: reading a property of x throws a TypeError
nullish(x) == x.js \in {"null", "undefined"}

\* x.name for an own property; undefined when x has none, also for a primitive x
field(x, name) == IF name \in DOMAIN x THEN x[name] ELSE Undefined

\* ToNumber, what the arithmetic operators and Number() apply
toNumber(x) ==
    CASE x.js = "number" -> x
      [] x.js = "null" -> Num(0)
      [] x.js = "string" /\ "num" \in DOMAIN x -> Num(x.num)
      [] x = EmptyString -> Num(0)
      [] OTHER -> NaN

\* new Date(x).getTime() for the values a syncedAt can hold
getTime(x) ==
    CASE x.js = "string" /\ "iso" \in DOMAIN x -> Num(x.iso)
      [] x.js = "number" -> x
      [] OTHER -> NaN

\* new Date().toISOString() at time ms
toISOString(ms) == Iso(ms)

\* x <= y and x < y on JavaScript numbers: false when either is NaN
Leq(x, y) == ~isNaN(x) /\ ~isNaN(y) /\ x.n <= y.n
Less(x, y) == ~isNaN(x) /\ ~isNaN(y) /\ x.n < y.n

\* utils.js:13 haversineMiles: the arithmetic applies ToNumber to each
\* argument, and any NaN makes the result NaN
haversineMiles(lat1, lon1, lat2, lon2) ==
    IF isNaN(toNumber(lat1)) \/ isNaN(toNumber(lon1))
       \/ isNaN(toNumber(lat2)) \/ isNaN(toNumber(lon2))
    THEN NaN
    ELSE Num(haversineLookup(<<toNumber(lat1).n, toNumber(lon1).n>>,
                             <<toNumber(lat2).n, toNumber(lon2).n>>,
                             {d \in Distances : /\ d[1] = <<toNumber(lat1).n, toNumber(lon1).n>>
                                                /\ d[2] = <<toNumber(lat2).n, toNumber(lon2).n>>}))

----------------------------------------------------------------------------
(* Storage items and JSON                                                  *)

\* getItem returns null
NoItem == [raw |-> "none"]
\* the empty string
EmptyItem == [raw |-> "empty"]
\* text that is not JSON
GarbageItem == [raw |-> "text"]
\* the JSON text of value
JsonText(value) == [raw |-> "json", value |-> value]

\* what JSON.parse(JSON.stringify(v)) is: NaN becomes null, a property that
\* is undefined is left out, arrays and objects are rebuilt element by element
\* the fields of the model's objects that hold a plain string
PlainFields == {"js", "id", "state", "label"}

RECURSIVE jsonValue(_)
jsonValue(v) ==
    CASE v.js = "number" -> IF isNaN(v) THEN Null ELSE v
      [] v.js = "array" -> Array([i \in 1..Len(v.items) |-> jsonValue(v.items[i])])
      [] v.js = "object" ->
            LET keep == {k \in DOMAIN v : k \in PlainFields \/ v[k] # Undefined}
            IN  [k \in keep |-> IF k \in PlainFields THEN v[k] ELSE jsonValue(v[k])]
      [] OTHER -> v

\* a readStorage that hands back text it cannot parse
readStorageUnparsed(store, key) ==
    LET raw == store[key]
    IN  IF raw.raw \in {"none", "empty"} THEN Null
        ELSE IF raw.raw = "json" THEN raw.value
        ELSE Text

\* utils.js:24 readStorage
readStorage(store, key) ==
    LET raw == store[key]
    IN  IF raw.raw \in {"none", "empty"} THEN Null
        ELSE IF raw.raw = "json" THEN raw.value
        ELSE Null

\* utils.js:37 writeStorage
writeStorage(store, key, value) == [store EXCEPT ![key] = JsonText(jsonValue(value))]

\* localStorage.removeItem
removeItem(store, key) == [store EXCEPT ![key] = NoItem]
----------------------------------------------------------------------------
(* Events                                                                  *)

\* an object never holds a field that is Undefined: a property that is
\* missing is a field that is missing
Event(id, state, day, lat, lon) ==
    [js |-> "object", id |-> id, state |-> state, startDate |-> Iso(day * 24 * HourMs),
     lat |-> lat, lon |-> lon]

\* an event without coordinates
EventNoCoord(id, state, day) ==
    [js |-> "object", id |-> id, state |-> state, startDate |-> Iso(day * 24 * HourMs)]


\* Fort Worth, 31.04 miles from Dallas
evNear == Event("e1", "TX", 2, Num(FortWorthLat), Num(FortWorthLon))
\* exactly 100.00 miles north of Dallas
evEdge == Event("e2", "TX", 1, Num(DallasLat + EdgeOffset), Num(DallasLon))
\* 100.01 miles north of Dallas
evFar == Event("e3", "TX", 1, Num(DallasLat + EdgeOffset + 1), Num(DallasLon))
\* Los Angeles
evCA == Event("e4", "CA", 1, Num(LosAngelesLat), Num(LosAngelesLon))
\* a listing without coordinates
evNoCoord == EventNoCoord("e5", "TX", 2)
\* a national listing: state "US" is offered by no option
evUS == EventNoCoord("e6", "US", 3)

EventUniverse == {evNear, evEdge, evFar, evCA, evNoCoord, evUS}

RECURSIVE SeqsUpTo(_, _)
SeqsUpTo(S, n) ==
    IF n = 0 THEN {<<>>}
    ELSE LET shorter == SeqsUpTo(S, n - 1)
         IN  shorter \cup {Append(q, x) : q \in {r \in shorter : Len(r) = n - 1}, x \in S}

\* data.js FALLBACK_EVENTS: the bundled seeded dataset
FALLBACK_EVENTS ==
    << Event("seed-1", "TX", 1, Num(DallasLat), Num(DallasLon)),
       Event("seed-2", "CA", 2, Num(LosAngelesLat), Num(LosAngelesLon)) >>

\* appState.allEvents refers to an array object: FALLBACK_EVENTS itself
\* (app.js:628) or an array of its own (JSON.parse or response.json made it)
SeededArray == [array |-> "FALLBACK_EVENTS"]
OwnArray(items) == [array |-> "own", items |-> items]

\* the elements of the array that ref refers to
elements(ref, seededNow) == IF ref = SeededArray THEN seededNow ELSE ref.items

\* an anchor as geocodeCity builds it (app.js:653)
Location(label, lat, lon) == [js |-> "object", label |-> label, lat |-> lat, lon |-> lon]

Dallas == Location("Dallas", Num(DallasLat), Num(DallasLon))
LosAngeles == Location("Los Angeles", Num(LosAngelesLat), Num(LosAngelesLon))

----------------------------------------------------------------------------
(* Filter/sort pipeline, app.js:522-537.                                   *)
(* An array is a sequence of cells [obj, src, val]: obj names the object   *)
(* (the elements of allEvents are objects 1..n, every object that map      *)
(* builds gets the next number), src is the index in allEvents of the      *)
(* event it was made from, val is its value.                               *)

Cell(obj, src, val) == [obj |-> obj, src |-> src, val |-> val]

cells(items) == [i \in 1..Len(items) |-> Cell(i, i, items[i])]

\* the elements of a sequence
Range(arr) == {arr[i] : i \in 1..Len(arr)}

\* Array.prototype.filter: a new array of the same objects; the callback is
\* the function keep
filter(arr, keep) ==
    LET kept[i \in 0..Len(arr)] ==
            IF i = 0 THEN <<>>
            ELSE IF keep[arr[i]] THEN Append(kept[i - 1], arr[i])
            ELSE kept[i - 1]
    IN  kept[Len(arr)]

\* a callback that keeps every event
stateMatchesAny(selectedState, cell) == TRUE

\* app.js:524
stateMatches(selectedState, cell) ==
    IF selectedState = "all" THEN TRUE ELSE cell.val.state = selectedState

\* a callback of map that gives 0 for the distance when there is no anchor
distanceFromOrZero(city, event) ==
    IF ~truthy(city) THEN Num(0)
    ELSE haversineMiles(field(city, "lat"), field(city, "lon"),
                        field(event, "lat"), field(event, "lon"))

\* app.js:526-533: the distance the callback of map computes
distanceFrom(city, event) ==
    IF ~truthy(city) THEN Null
    ELSE haversineMiles(field(city, "lat"), field(city, "lon"),
                        field(event, "lat"), field(event, "lon"))

\* app.js:525-534, the callback of map: { ...event, distance }
withDistance(city, event) ==
    [k \in DOMAIN event \cup {"distance"} |->
        IF k = "distance" THEN distanceFrom(city, event)
        ELSE IF k = "js" THEN "object"
        ELSE event[k]]

\* Array.prototype.map with that callback: a new array of new objects, the
\* first of which is object number first
mapDistance(arr, city, first) ==
    [i \in 1..Len(arr) |-> Cell(first + i - 1, arr[i].src, withDistance(city, arr[i].val))]

\* the radius compared with < in place of <=
withinRadiusStrict(city, cell) ==
    IF truthy(city)
    THEN Less(toNumber(cell.val.distance), Num(SEARCH_RADIUS_MILES * MilesScale))
    ELSE TRUE

\* app.js:535
withinRadius(city, cell) ==
    IF truthy(city)
    THEN Leq(toNumber(cell.val.distance), Num(SEARCH_RADIUS_MILES * MilesScale))
    ELSE TRUE

\* app.js:536, the comparator: new Date(a.startDate) - new Date(b.startDate)
\* a difference that is NaN is taken for 0 by Array.prototype.sort
byStartDate(a, b) ==
    IF isNaN(getTime(field(a.val, "startDate"))) \/ isNaN(getTime(field(b.val, "startDate")))
    THEN 0
    ELSE getTime(a.val.startDate).n - getTime(b.val.startDate).n

\* an insertion that goes in front of the elements that compare equal
insertSortedFront(sorted, x, cmp) ==
    LET notLess == {i \in 1..Len(sorted) : cmp[<<sorted[i], x>>] >= 0}
        at == IF notLess = {} THEN Len(sorted) + 1
              ELSE CHOOSE i \in notLess : \A j \in notLess : i <= j
    IN  SubSeq(sorted, 1, at - 1) \o <<x>> \o SubSeq(sorted, at, Len(sorted))

\* Array.prototype.sort is stable: x goes behind every element that does
\* not compare greater than it; the comparator is the function cmp on pairs
insertSorted(sorted, x, cmp) ==
    LET greater == {i \in 1..Len(sorted) : cmp[<<sorted[i], x>>] > 0}
        at == IF greater = {} THEN Len(sorted) + 1
              ELSE CHOOSE i \in greater : \A j \in greater : i <= j
    IN  SubSeq(sorted, 1, at - 1) \o <<x>> \o SubSeq(sorted, at, Len(sorted))

sort(arr, cmp) ==
    LET done[i \in 0..Len(arr)] ==
            IF i = 0 THEN <<>> ELSE insertSorted(done[i - 1], arr[i], cmp)
    IN  done[Len(arr)]

\* the second filter, the sort and the result, from the array map made
nearSorted(input, mapped, city) ==
    [visible |->
        sort(filter(mapped, [c \in Range(mapped) |-> withinRadius(city, c)]),
             [p \in Range(mapped) \X Range(mapped) |-> byStartDate(p[1], p[2])]),
     allEvents |-> [i \in 1..Len(input) |-> input[i].val]]

\* a pipeline that sorts appState.allEvents itself before it filters
pipelineSortsInput(input, selectedState, city) ==
    LET sorted == sort(input, [p \in Range(input) \X Range(input) |-> byStartDate(p[1], p[2])])
        run == nearSorted(sorted,
                          mapDistance(filter(sorted, [c \in Range(sorted) |-> stateMatches(selectedState, c)]),
                                      city, Len(sorted) + 1),
                          city)
    IN  run

\* app.js:523-536 over the cells of appState.allEvents: the array returned,
\* and the elements of appState.allEvents once the chain has run (sort works
\* in place, on the array that the second filter made)
pipeline(input, selectedState, city) ==
    nearSorted(input,
               mapDistance(filter(input, [c \in Range(input) |-> stateMatches(selectedState, c)]),
                           city, Len(input) + 1),
               city)

\* app.js:524, 532: event.state, read when a state is selected, and
\* event.lat, read when there is an anchor, throw for an element that is
\* null or undefined
computeVisibleEventsThrows(allEvents, selectedState, city) ==
    /\ \E i \in 1..Len(allEvents) : nullish(allEvents[i])
    /\ selectedState # "all" \/ truthy(city)

\* app.js:522 computeVisibleEvents
computeVisibleEvents(allEvents, selectedState, city) ==
    pipeline(cells(allEvents), selectedState, city)

----------------------------------------------------------------------------
(* The page: what the handlers read and write.                             *)
(* A world W is [appState, localStorage, ui, seeded]; the functions of     *)
(* app.js are operators from worlds to worlds.                             *)

\* index.html as served
InitialUi ==
    [stateFilter |-> "all", options |-> <<>>, cards |-> <<>>,
     statusMessage |-> "", syncLabel |-> Undefined, refreshDisabled |-> FALSE,
     cityInput |-> ""]

\* app.js:487-491, evaluated when the module loads
InitialAppState(store) ==
    [allEvents |-> OwnArray(<<>>), selectedState |-> "all",
     city |-> readStorage(store, CITY_KEY)]

allEventsOf(W) == elements(W.appState.allEvents, W.seeded)

\* the state codes in the order of localeCompare
CodeOrder == <<"CA", "NY", "TX", "US">>
localeCompare(a, b) ==
    (CHOOSE i \in 1..Len(CodeOrder) : CodeOrder[i] = a)
    - (CHOOSE i \in 1..Len(CodeOrder) : CodeOrder[i] = b)

\* the distinct states sorted, utils.js:42
sortedCodes(codes) ==
    sort(codes, [p \in Range(codes) \X Range(codes) |-> localeCompare(p[1], p[2])])

\* utils.js:42: event.state throws for an element that is null or undefined
stateListThrows(events) == \E i \in 1..Len(events) : nullish(events[i])

\* utils.js:41 stateList: the distinct states, sorted
stateList(events) ==
    LET distinct[i \in 0..Len(events)] ==
            IF i = 0 THEN <<>>
            ELSE IF \E j \in 1..(i - 1) : events[j].state = events[i].state
                 THEN distinct[i - 1]
                 ELSE Append(distinct[i - 1], events[i].state)
    IN  sortedCodes(distinct[Len(events)])

\* assigning v to select.value: the value stays v only if an option has it
selectValue(options, v) ==
    IF v = "all" \/ \E i \in 1..Len(options) : options[i] = v THEN v ELSE ""

\* app.js:508-519: the options are drawn and the value is assigned
optionsShown(W, options) ==
    [W EXCEPT !.ui.options = options,
              !.ui.stateFilter = selectValue(options, W.appState.selectedState)]

\* renderStateFilter throws: stateList does, after app.js:508 has run
renderStateFilterThrows(W) == stateListThrows(allEventsOf(W))

\* app.js:507 renderStateFilter; when stateList throws, the select is left
\* with the one option app.js:508 gave it
renderStateFilter(W) ==
    IF renderStateFilterThrows(W)
    THEN [W EXCEPT !.ui.options = <<>>, !.ui.stateFilter = "all"]
    ELSE optionsShown(W, filter(stateList(allEventsOf(W)),
                                [code \in Range(CodeOrder) |-> code # "US"]))

\* storing elements into the array that ref refers to
stored(W, ref, items) ==
    IF ref = SeededArray THEN [W EXCEPT !.seeded = items]
    ELSE [W EXCEPT !.appState.allEvents = OwnArray(items)]

\* app.js:561-566: whether the card of the event gets a distance chip
distanceChip(event) == event.distance # Null

\* app.js:541-576: one card per visible event; its click handler holds the
\* event object
cardsShown(W, run) ==
    [stored(W, W.appState.allEvents, run.allEvents)
        EXCEPT !.ui.cards = [i \in 1..Len(run.visible) |->
                                [obj |-> run.visible[i].obj, src |-> run.visible[i].src,
                                 val |-> run.visible[i].val,
                                 chip |-> distanceChip(run.visible[i].val)]]]

\* renderCards throws: computeVisibleEvents does, at app.js:540
renderCardsThrows(W) ==
    computeVisibleEventsThrows(allEventsOf(W), W.appState.selectedState, W.appState.city)

\* app.js:539 renderCards; when it throws, nothing has been drawn
renderCards(W) ==
    IF renderCardsThrows(W) THEN W
    ELSE cardsShown(W, computeVisibleEvents(allEventsOf(W), W.appState.selectedState,
                                             W.appState.city))

----------------------------------------------------------------------------
(* Feed loader, app.js:583-633                                             *)

\* the TTL compared in seconds
cacheIsFreshSeconds(cache, t) ==
    IF ~truthy(field(cache, "syncedAt")) \/ ~isArray(field(cache, "events"))
    THEN FALSE
    ELSE LET at == getTime(cache.syncedAt)
         IN  ~isNaN(at) /\ t - at.n < 24 * 60 * 60

\* the age compared with <= in place of <
cacheIsFreshInclusive(cache, t) ==
    IF ~truthy(field(cache, "syncedAt")) \/ ~isArray(field(cache, "events"))
    THEN FALSE
    ELSE LET at == getTime(cache.syncedAt)
         IN  ~isNaN(at) /\ t - at.n <= CACHE_TTL_MS

\* app.js:583 cacheIsFresh at time t
cacheIsFresh(cache, t) ==
    IF ~truthy(field(cache, "syncedAt")) \/ ~isArray(field(cache, "events"))
    THEN FALSE
    ELSE LET at == getTime(cache.syncedAt)
         IN  ~isNaN(at) /\ t - at.n < CACHE_TTL_MS

\* what fetch settles with
Rejected == [net |-> "rejected"]
Response(ok) == [net |-> "response", ok |-> ok]
\* what response.json() settles with
Undecodable == [decoded |-> FALSE]
Decoded(payload) == [decoded |-> TRUE, payload |-> payload]
\* no body is read when there is no successful response
NoBody == [decoded |-> FALSE, unread |-> TRUE]

Threw == [threw |-> TRUE]
Returned(value) == [threw |-> FALSE, value |-> value]

\* fetchPublishedEvents stamping every payload with the current time
fetchPublishedEventsStampsNow(response, body, t) ==
    IF response.net = "rejected" THEN Threw
    ELSE IF ~response.ok THEN Threw
    ELSE IF ~body.decoded THEN Threw
    ELSE IF body.payload.js \in {"null", "undefined"} THEN Threw
    ELSE IF ~isArray(field(body.payload, "events")) THEN Threw
    ELSE Returned([js |-> "object", events |-> body.payload.events, syncedAt |-> toISOString(t)])

\* app.js:591 fetchPublishedEvents, settled at time t with response and body
fetchPublishedEvents(response, body, t) ==
    IF response.net = "rejected" THEN Threw
    ELSE IF ~response.ok THEN Threw
    ELSE IF ~body.decoded THEN Threw
    ELSE IF body.payload.js \in {"null", "undefined"} THEN Threw
    ELSE IF ~isArray(field(body.payload, "events")) THEN Threw
    ELSE Returned([js |-> "object",
                   events |-> body.payload.events,
                   syncedAt |-> IF truthy(field(body.payload, "syncedAt"))
                                THEN body.payload.syncedAt
                                ELSE toISOString(t)])

Resolved(W) == [outcome |-> "resolved", world |-> W]
RejectedWith(W) == [outcome |-> "rejected", world |-> W]

\* app.js:613-617, the cache hit
loadEventsHit(W, cached) ==
    Resolved([W EXCEPT !.appState.allEvents = OwnArray(cached.events.items),
                       !.ui.syncLabel = cached.syncedAt])

\* a try block that does not write the cache
loadEventsTryUnsaved(W, published) ==
    Resolved([W EXCEPT !.appState.allEvents = OwnArray(published.events.items),
                       !.ui.syncLabel = published.syncedAt,
                       !.ui.statusMessage = "Loaded events from daily published feed."])

\* app.js:621-624, the try block once fetchPublishedEvents has returned
loadEventsTry(W, published) ==
    Resolved([W EXCEPT !.appState.allEvents = OwnArray(published.events.items),
                       !.localStorage = writeStorage(W.localStorage, CACHE_KEY, published),
                       !.ui.syncLabel = published.syncedAt,
                       !.ui.statusMessage = "Loaded events from daily published feed."])

\* the catch block without its writeStorage
loadEventsCatchUnsaved(W, t) ==
    Resolved([W EXCEPT !.appState.allEvents = SeededArray,
                       !.ui.syncLabel = toISOString(t),
                       !.ui.statusMessage = "Using fallback dataset. Daily feed unavailable right now."])

\* a catch block that throws the error on
loadEventsCatchRethrows(W, t) == RejectedWith(W)

\* app.js:625-632, the catch block at time t
loadEventsCatch(W, t) ==
    LET syncedAt == toISOString(t)
        fallbackPayload == [js |-> "object", events |-> Array(W.seeded), syncedAt |-> syncedAt]
    IN  Resolved([W EXCEPT !.appState.allEvents = SeededArray,
                           !.localStorage = writeStorage(W.localStorage, CACHE_KEY, fallbackPayload),
                           !.ui.syncLabel = syncedAt,
                           !.ui.statusMessage = "Using fallback dataset. Daily feed unavailable right now."])

\* app.js:619-632: loadEvents from the moment fetchPublishedEvents settles
loadEventsSettle(W, result, t) ==
    IF result.threw THEN loadEventsCatch(W, t) ELSE loadEventsTry(W, result.value)

\* a loadEvents that serves a fresh cache whatever force is
loadEventsFetchesUnforced(W, force, t) ==
    ~cacheIsFresh(readStorage(W.localStorage, CACHE_KEY), t)

\* app.js:610-617: whether loadEvents goes to the network
loadEventsFetches(W, force, t) ==
    ~(~force /\ cacheIsFresh(readStorage(W.localStorage, CACHE_KEY), t))

----------------------------------------------------------------------------
(* Geocoding client and the handlers of bind, app.js:635-710               *)

\* one row of the geocoder's response
Row(name, lat, lon) == [js |-> "object", label |-> name, lat |-> lat, lon |-> lon]

\* app.js:635 geocodeCity, settled with response and body
geocodeCity(response, body) ==
    IF response.net = "rejected" THEN Threw
    ELSE IF ~response.ok THEN Threw
    ELSE IF ~body.decoded THEN Threw
    ELSE LET rows == body.payload
         IN  IF Len(rows.items) = 0 THEN Returned(Null)
             ELSE Returned(Location(rows.items[1].label,
                                    toNumber(rows.items[1].lat),
                                    toNumber(rows.items[1].lon)))

\* value.trim() is empty
blank(text) == text \in {"", " "}

\* an Apply handler that drops the anchor when the city is not found
applyCitySettleClears(W, result) ==
    IF result.threw
    THEN [W EXCEPT !.ui.statusMessage = "Could not geocode city right now. Try again shortly."]
    ELSE IF ~truthy(result.value)
    THEN renderCards(
            [W EXCEPT !.appState.city = Null,
                      !.localStorage = removeItem(W.localStorage, CITY_KEY),
                      !.ui.statusMessage = "City not found."])
    ELSE renderCards(
            [W EXCEPT !.appState.city = result.value,
                      !.localStorage = writeStorage(W.localStorage, CITY_KEY, result.value),
                      !.ui.statusMessage = "Showing tournaments within 100 miles of the city."])

\* app.js:685-688: renderCards inside the try block of the Apply handler
applyCityRender(W) ==
    IF renderCardsThrows(W)
    THEN [W EXCEPT !.ui.statusMessage = "Could not geocode city right now. Try again shortly."]
    ELSE renderCards(W)

\* app.js:675-688: the Apply handler from the moment geocodeCity settles
applyCitySettle(W, result) ==
    IF result.threw
    THEN [W EXCEPT !.ui.statusMessage = "Could not geocode city right now. Try again shortly."]
    ELSE IF ~truthy(result.value)
    THEN [W EXCEPT !.ui.statusMessage = "City not found."]
    ELSE applyCityRender(
            [W EXCEPT !.appState.city = result.value,
                      !.localStorage = writeStorage(W.localStorage, CITY_KEY, result.value),
                      !.ui.statusMessage = "Showing tournaments within 100 miles of the city."])

\* a Clear handler that also puts the state filter back to "all"
clearCityResetsState(W) ==
    renderCards(
        [W EXCEPT !.appState.city = Null,
                  !.appState.selectedState = "all",
                  !.localStorage = removeItem(W.localStorage, CITY_KEY),
                  !.ui.cityInput = "",
                  !.ui.statusMessage = "City filter cleared."])

\* app.js:691-697, the Clear handler
clearCity(W) ==
    renderCards(
        [W EXCEPT !.appState.city = Null,
                  !.localStorage = removeItem(W.localStorage, CITY_KEY),
                  !.ui.cityInput = "",
                  !.ui.statusMessage = "City filter cleared."])

\* app.js:661-664, the change handler of the state filter
stateChanged(W) ==
    renderCards([W EXCEPT !.appState.selectedState = W.ui.stateFilter])

\* app.js:721-722, init after await loadEvents(): a throw of
\* renderStateFilter ends it
initContinue(W) ==
    IF renderStateFilterThrows(W) THEN renderStateFilter(W)
    ELSE renderCards(renderStateFilter(W))

\* app.js:704-708, the Refresh handler after await loadEvents({ force: true }):
\* a throw of renderStateFilter or of renderCards ends it before app.js:708
refreshContinue(W) ==
    IF renderStateFilterThrows(W) THEN renderStateFilter(W)
    ELSE IF renderCardsThrows(renderStateFilter(W)) THEN renderStateFilter(W)
    ELSE [renderCards(renderStateFilter(W)) EXCEPT !.ui.refreshDisabled = FALSE]

\* what the caller of loadEvents does once the call has settled with r: its
\* continuation runs only if the call resolved
afterLoad(caller, r) ==
    IF r.outcome # "resolved" THEN r.world
    ELSE IF caller = "init" THEN initContinue(r.world)
    ELSE refreshContinue(r.world)

----------------------------------------------------------------------------
(* Details view: init of details.js:32-52, and of the copy of the view     *)
(* that data.js:46-67 holds                                                *)

\* the two files of the repository that hold the details view
DetailsViews == {"details.js", "data.js"}

\* app.js:569: the key the card's click handler writes
SELECTED_KEY == "usChessSelectedTournament"
\* details.js:35: the key the details view reads
DETAILS_KEY == "selectedTournament"

\* details.js:35 and data.js:49: the key sessionStorage.getItem is given
slotOf(view) == IF view = "details.js" THEN DETAILS_KEY ELSE SELECTED_KEY

\* params.get("id"): null when the query has no id
NoQuery == [has |-> FALSE]
Query(id) == [has |-> TRUE, id |-> id]

\* what detailsRoot shows
Pending == [view |-> "none"]
Missing == [view |-> "missing"]
Tournament(event) == [view |-> "tournament", event |-> event]

\* details.js:17-30 renderTournament: (event.sections || []).join throws when
\* sections is neither falsy nor an array; data.js:25-28 asks Array.isArray
renderTournament(view, event) ==
    IF /\ view = "details.js"
       /\ truthy(field(event, "sections"))
       /\ ~isArray(field(event, "sections"))
    THEN Threw
    ELSE Returned(Tournament(event))

\* details.js:42-51, the try block over the parsed value event
detailsTry(view, event, query) ==
    IF ~query.has \/ query.id = "" THEN Missing
    ELSE IF event.js \in {"null", "undefined"} THEN Missing
    ELSE IF "id" \notin DOMAIN event THEN Missing
    ELSE IF event.id # query.id THEN Missing
    ELSE IF renderTournament(view, event).threw THEN Missing
    ELSE renderTournament(view, event).value

\* details.js:32 init over the item raw that getItem returned
detailsInit(view, raw, query) ==
    IF raw.raw \in {"none", "empty"} THEN Missing
    ELSE IF raw.raw # "json" THEN Missing
    ELSE detailsTry(view, raw.value, query)

----------------------------------------------------------------------------
(* State machine                                                           *)

Callers == {"init", "refresh"}

\* a loadEvents call: where it is, its argument, the requests it has issued,
\* how it ended and whether its caller went on to render
IdleLoad ==
    [pc |-> "idle", force |-> FALSE, fetches |-> 0, outcome |-> "none", rendered |-> FALSE]

World == [appState |-> appState, localStorage |-> localStorage, ui |-> ui, seeded |-> seeded]

Becomes(W) ==
    /\ appState' = W.appState
    /\ localStorage' = W.localStorage
    /\ ui' = W.ui
    /\ seeded' = W.seeded

\* the page starts as W
Becomes0(W) ==
    /\ appState = W.appState
    /\ localStorage = W.localStorage
    /\ ui = W.ui
    /\ seeded = W.seeded

\* no such time
Never == 0 - 1

Step(op) == [op |-> op]
Settled(op, caller, s) == [op |-> op, caller |-> caller, response |-> s.response, body |-> s.body]

\* the lists events.json may publish: events, and a list with an element
\* that is null
FeedLists == {<<evNear, evCA>>, <<evUS, evEdge>>, <<evCA, Null>>}

\* the syncedAt values events.json may carry: a day and a half old, not a
\* date, empty
FeedStamps == {Iso(T0 - 36 * HourMs), Text, EmptyString}

Payloads ==
    {Null, [js |-> "object"], [js |-> "object", events |-> Text]}
    \cup {[js |-> "object", events |-> Array(l)] : l \in FeedLists}
    \cup {[js |-> "object", events |-> Array(l), syncedAt |-> s] : l \in FeedLists, s \in FeedStamps}

\* the ways a feed fetch settles: fetch rejects, the status is not a
\* success, the body does not decode, or it decodes to a payload
FeedSettlements ==
    {[response |-> Rejected, body |-> NoBody],
     [response |-> Response(FALSE), body |-> NoBody],
     [response |-> Response(TRUE), body |-> Undecodable]}
    \cup {[response |-> Response(TRUE), body |-> Decoded(p)] : p \in Payloads}

CacheEntry(events, syncedAt) == [js |-> "object", events |-> events, syncedAt |-> syncedAt]

\* what the feed-cache key may hold when the page is first opened
InitialCaches ==
    {NoItem, EmptyItem, GarbageItem, JsonText(Null),
     JsonText(CacheEntry(Array(<<evNear, evCA>>), Iso(T0 - 12 * HourMs))),
     JsonText(CacheEntry(Array(<<evUS, evEdge>>), Iso(T0 - 24 * HourMs))),
     JsonText(CacheEntry(Array(<<evNear>>), Text)),
     JsonText(CacheEntry(Text, Iso(T0))),
     JsonText([js |-> "object", events |-> Array(<<evCA>>)])}

\* what the city key may hold when the page is first opened
InitialCities ==
    {NoItem, GarbageItem, JsonText(Dallas), JsonText([js |-> "object", label |-> "Nowhere"])}

\* what the user may type into the city input
CityInputs == {" ", "Dallas", "Los Angeles"}

Place(text) == IF text = "Dallas" THEN Dallas ELSE LosAngeles

\* the ways a geocode request for text settles
GeoSettlements(text) ==
    {[response |-> Rejected, body |-> NoBody],
     [response |-> Response(FALSE), body |-> NoBody],
     [response |-> Response(TRUE), body |-> Undecodable],
     [response |-> Response(TRUE), body |-> Decoded(Array(<<>>))],
     [response |-> Response(TRUE),
      body |-> Decoded(Array(<<Row(Place(text).label,
                                   NumStr(Place(text).lat.n), NumStr(Place(text).lon.n))>>))],
     [response |-> Response(TRUE), body |-> Decoded(Array(<<Row("Atlantis", Text, Text)>>))]}

Store(cache, city) == [k \in {CACHE_KEY, CITY_KEY} |-> IF k = CACHE_KEY THEN cache ELSE city]

SessionKeys == {SELECTED_KEY, DETAILS_KEY}

\* a session in which nothing has been stored and no details view opened
EmptySession == [k \in SessionKeys |-> NoItem]
NoDetails == [from |-> "nowhere", file |-> "none", query |-> NoQuery, shown |-> Pending]
Unvisited == sessionStorage = EmptySession /\ details = NoDetails

\* the page as the browser has just loaded it, over the durable store
Booted(store) ==
    /\ localStorage = store
    /\ seeded = FALLBACK_EVENTS
    /\ appState = InitialAppState(store)
    /\ ui = InitialUi
    /\ loads = [c \in Callers |-> IdleLoad]
    /\ geo = <<>>
    /\ page = "boot"
    /\ last = Step("boot")

Init ==
    /\ now = T0
    /\ fallbackAt = Never
    /\ fetchedAt = Never
    /\ \E cache \in InitialCaches, city \in InitialCities : Booted(Store(cache, city))
    /\ Unvisited

\* time passes
Tick ==
    /\ now < T0 + MaxTicks * StepMs
    /\ now' = now + StepMs
    /\ last' = Step("Tick")
    /\ UNCHANGED <<localStorage, seeded, appState, ui, loads, geo, page, fallbackAt, fetchedAt>>
    /\ UNCHANGED sessionVars

\* loadEvents is called by caller in world W: app.js:610-620 up to the await.
\* A cache hit resolves the call at once; otherwise one request goes out.
StartLoad(caller, force, W) ==
    IF loadEventsFetches(W, force, now)
    THEN /\ loads' = [loads EXCEPT ![caller] =
                        [IdleLoad EXCEPT !.pc = "fetch", !.force = force, !.fetches = 1]]
         /\ Becomes(W)
    ELSE LET r == loadEventsHit(W, readStorage(W.localStorage, CACHE_KEY))
         IN  /\ loads' = [loads EXCEPT ![caller] =
                            [IdleLoad EXCEPT !.pc = "done", !.force = force,
                                             !.outcome = r.outcome,
                                             !.rendered = (r.outcome = "resolved")]]
             /\ Becomes(afterLoad(caller, r))

\* app.js:712-723 init(), run once when the page has loaded
PageInit ==
    /\ page = "boot"
    /\ page' = "ready"
    /\ StartLoad("init", FALSE,
                 IF "label" \in DOMAIN appState.city /\ appState.city.label # ""
                 THEN [World EXCEPT !.ui.statusMessage = "Loaded saved city filter."]
                 ELSE World)
    /\ last' = Step("PageInit")
    /\ UNCHANGED <<now, geo, fallbackAt, fetchedAt>>
    /\ UNCHANGED sessionVars

\* the user reloads the page: the module is evaluated again, and whatever was
\* in flight is dropped with the old page
Reload ==
    /\ page = "ready"
    /\ page' = "boot"
    /\ appState' = InitialAppState(localStorage)
    /\ ui' = InitialUi
    /\ seeded' = FALLBACK_EVENTS
    /\ loads' = [c \in Callers |-> IdleLoad]
    /\ geo' = <<>>
    /\ last' = Step("Reload")
    /\ UNCHANGED <<now, localStorage, fallbackAt, fetchedAt>>
    /\ UNCHANGED sessionVars

\* app.js:699-703, a click on Refresh
RefreshClick ==
    /\ page = "ready"
    /\ ~ui.refreshDisabled
    /\ StartLoad("refresh", TRUE, [World EXCEPT !.ui.refreshDisabled = TRUE])
    /\ last' = Step("RefreshClick")
    /\ fallbackAt' = Never
    /\ UNCHANGED fetchedAt
    /\ UNCHANGED <<now, geo, page>>
    /\ UNCHANGED sessionVars

\* the feed fetch of caller settles
FetchSettle(caller) ==
    /\ page = "ready"
    /\ loads[caller].pc = "fetch"
    /\ \E s \in FeedSettlements :
          LET r == loadEventsSettle(World, fetchPublishedEvents(s.response, s.body, now), now)
          IN  /\ loads' = [loads EXCEPT ![caller].pc = "done",
                                        ![caller].outcome = r.outcome,
                                        ![caller].rendered = (r.outcome = "resolved")]
              /\ Becomes(afterLoad(caller, r))
              /\ last' = Settled("FetchSettle", caller, s)
              /\ fallbackAt' = IF fetchPublishedEvents(s.response, s.body, now).threw THEN now
                               ELSE IF caller = "refresh" THEN Never
                               ELSE fallbackAt
              /\ fetchedAt' = IF fetchPublishedEvents(s.response, s.body, now).threw
                              THEN fetchedAt
                              ELSE now
    /\ UNCHANGED <<now, geo, page>>
    /\ UNCHANGED sessionVars

\* the user picks another option of the state filter
StateChange ==
    /\ page = "ready"
    /\ \E v \in {"all"} \cup {ui.options[i] : i \in 1..Len(ui.options)} :
          /\ v # ui.stateFilter
          /\ Becomes(stateChanged([World EXCEPT !.ui.stateFilter = v]))
    /\ last' = Step("StateChange")
    /\ UNCHANGED <<now, loads, geo, page, fallbackAt, fetchedAt>>
    /\ UNCHANGED sessionVars

\* app.js:666-676, a click on Apply with text in the city input
ApplyClick ==
    /\ page = "ready"
    /\ \E text \in CityInputs :
          IF blank(text)
          THEN /\ Becomes([World EXCEPT !.ui.cityInput = text,
                                        !.ui.statusMessage = "Enter a city, for example: Denver, CO"])
               /\ geo' = geo
          ELSE /\ Len(geo) < MaxGeo
               /\ Becomes([World EXCEPT !.ui.cityInput = text,
                                        !.ui.statusMessage = "Resolving city"])
               /\ geo' = Append(geo, text)
    /\ last' = Step("ApplyClick")
    /\ UNCHANGED <<now, loads, page, fallbackAt, fetchedAt>>
    /\ UNCHANGED sessionVars

\* a geocode request settles
GeoSettle ==
    /\ page = "ready"
    /\ \E i \in 1..Len(geo) : \E s \in GeoSettlements(geo[i]) :
          /\ Becomes(applyCitySettle(World, geocodeCity(s.response, s.body)))
          /\ geo' = SubSeq(geo, 1, i - 1) \o SubSeq(geo, i + 1, Len(geo))
          /\ last' = Settled("GeoSettle", geo[i], s)
    /\ UNCHANGED <<now, loads, page, fallbackAt, fetchedAt>>
    /\ UNCHANGED sessionVars

\* a click on Clear
ClearClick ==
    /\ page = "ready"
    /\ Becomes(clearCity(World))
    /\ last' = Step("ClearClick")
    /\ UNCHANGED <<now, loads, geo, page, fallbackAt, fetchedAt>>
    /\ UNCHANGED sessionVars

\* app.js:568-571, a click on "Open details" of a card: the event is
\* stored and the browser leaves for details.html?id=<event.id>
OpenDetails ==
    /\ page = "ready"
    /\ page' = "details"
    /\ \E i \in 1..Len(ui.cards) :
          /\ sessionStorage' = writeStorage(sessionStorage, SELECTED_KEY, ui.cards[i].val)
          /\ details' = [from |-> "card", file |-> "none", clicked |-> ui.cards[i].val,
                         query |-> Query(IF "id" \in DOMAIN ui.cards[i].val
                                         THEN ui.cards[i].val.id ELSE "undefined"),
                         shown |-> Pending]
    /\ last' = Step("OpenDetails")
    /\ UNCHANGED <<now, localStorage, seeded, appState, ui, loads, geo, fallbackAt, fetchedAt>>

\* the queries a user may open details.html with
Queries == {NoQuery, Query(""), Query("e1"), Query("e4")}

\* the user opens details.html by its address
VisitDetails ==
    /\ page \in {"boot", "ready"}
    /\ page' = "details"
    /\ \E q \in Queries :
          details' = [from |-> "address", file |-> "none", query |-> q, shown |-> Pending]
    /\ last' = Step("VisitDetails")
    /\ UNCHANGED <<now, localStorage, seeded, appState, ui, loads, geo, fallbackAt, fetchedAt, sessionStorage>>

\* details.js:54 init(), run when details.html has loaded, by either file
DetailsLoad ==
    /\ page = "details"
    /\ details.shown = Pending
    /\ \E view \in DetailsViews :
          details' = [details EXCEPT !.file = view,
                                     !.shown = detailsInit(view, sessionStorage[slotOf(view)],
                                                           details.query)]
    /\ last' = Step("DetailsLoad")
    /\ UNCHANGED <<now, localStorage, seeded, appState, ui, loads, geo, page, fallbackAt, fetchedAt,
                   sessionStorage>>

Next ==
    \/ Tick
    \/ PageInit
    \/ Reload
    \/ RefreshClick
    \/ \E caller \in Callers : FetchSettle(caller)
    \/ StateChange
    \/ ApplyClick
    \/ GeoSettle
    \/ ClearClick
    \/ OpenDetails
    \/ VisitDetails
    \/ DetailsLoad

Spec == Init /\ [][Next]_vars

----------------------------------------------------------------------------
(* The feed loader alone: page loads, reloads and Refresh clicks over every *)
(* content of the feed cache, with no city anchor stored.                  *)

FeedInit ==
    /\ now = T0
    /\ fallbackAt = Never
    /\ fetchedAt = Never
    /\ \E cache \in InitialCaches : Booted(Store(cache, NoItem))
    /\ Unvisited

FeedNext ==
    \/ Tick
    \/ PageInit
    \/ Reload
    \/ RefreshClick
    \/ \E caller \in Callers : FetchSettle(caller)

FeedSpec == FeedInit /\ [][FeedNext]_vars

----------------------------------------------------------------------------
(* Properties of the feed loader, checked under FeedSpec                   *)

\* the entry under the feed-cache key, read as the properties word it
Entry(store) == store[CACHE_KEY]
HasEntry(item) == item.raw = "json" /\ item.value.js = "object"
EventsIsList(item) ==
    HasEntry(item) /\ "events" \in DOMAIN item.value /\ item.value.events.js = "array"
HasSyncedAt(item) ==
    /\ HasEntry(item)
    /\ "syncedAt" \in DOMAIN item.value
    /\ item.value.syncedAt \notin {Null, Undefined, EmptyString}
SyncedAtIsDate(item) == HasSyncedAt(item) /\ "iso" \in DOMAIN item.value.syncedAt
Age(item, t) == t - item.value.syncedAt.iso

\* this step is a call of loadEvents by caller c
Started(c) == last'.op \in {"PageInit", "RefreshClick"} /\ loads'[c] # loads[c]

\* this step settles a feed fetch
Settles == last'.op = "FetchSettle"

\* the fetch settled with a failure: fetch rejected, the status was not a
\* success, the body did not decode, or events is not a list
FetchFailed(l) ==
    \/ l.response.net = "rejected"
    \/ ~l.response.ok
    \/ ~l.body.decoded
    \/ ~("events" \in DOMAIN l.body.payload /\ l.body.payload.events.js = "array")

\* C1: a loadEvents call with force = false that finds a fresh cache entry
\* (events is a list, now - syncedAt < 24 hours) issues no request and is
\* complete at once, appState.allEvents holds exactly the cached list, and
\* the cache is left as it was.
C1_FreshCacheHit ==
    [][\A c \in Callers :
          (/\ Started(c)
           /\ ~loads'[c].force
           /\ EventsIsList(Entry(localStorage))
           /\ SyncedAtIsDate(Entry(localStorage))
           /\ Age(Entry(localStorage), now) < CACHE_TTL_MS)
          => /\ loads'[c].fetches = 0
             /\ loads'[c].pc = "done"
             /\ elements(appState'.allEvents, seeded') = Entry(localStorage).value.events.items
             /\ localStorage' = localStorage]_vars

\* init() has just returned from a cache hit on a non-empty list
C1_Witness ==
    /\ last.op = "PageInit"
    /\ loads["init"].pc = "done"
    /\ loads["init"].fetches = 0
    /\ ~loads["init"].force
    /\ EventsIsList(Entry(localStorage))
    /\ Age(Entry(localStorage), now) < CACHE_TTL_MS
    /\ Len(elements(appState.allEvents, seeded)) > 0
    /\ elements(appState.allEvents, seeded) = Entry(localStorage).value.events.items

\* C2: when the fetch fails in any of the four ways, whatever the cache held,
\* appState.allEvents becomes the seeded fallback list and the cache holds
\* {events: fallback list, syncedAt: the time of the failure}.
C2_FallbackOnFailure ==
    [][(Settles /\ FetchFailed(last'))
          => /\ elements(appState'.allEvents, seeded') = FALLBACK_EVENTS
             /\ Entry(localStorage') =
                    JsonText(CacheEntry(Array(FALLBACK_EVENTS), Iso(now)))]_vars

\* a payload whose events is not a list has just replaced a cached feed by
\* the fallback
C2_Witness ==
    /\ last.op = "FetchSettle"
    /\ last.response.net = "response"
    /\ last.response.ok
    /\ last.body.decoded
    /\ last.body.payload = [js |-> "object", events |-> Text]
    /\ elements(appState.allEvents, seeded) = FALLBACK_EVENTS
    /\ Entry(localStorage) = JsonText(CacheEntry(Array(FALLBACK_EVENTS), Iso(now)))
    /\ now > T0

\* C3: loadEvents never completes with an error: every call that is over
\* resolved normally, and its caller went on to re-render.
C3_LoadNeverRejects ==
    \A c \in Callers :
        loads[c].pc = "done" => loads[c].outcome = "resolved" /\ loads[c].rendered

\* a call whose fetch was rejected is over, resolved, and the fallback list
\* is on the page
C3_Witness ==
    /\ last.op = "FetchSettle"
    /\ last.response.net = "rejected"
    /\ loads[last.caller].pc = "done"
    /\ loads[last.caller].outcome = "resolved"
    /\ loads[last.caller].rendered
    /\ Len(ui.cards) = Len(FALLBACK_EVENTS)

\* the conditions under which a call must go to the network, as listed:
\* force, or a cache that is absent or unparsable, has no syncedAt, has an
\* events that is not a list, or is 24 hours old or older
MustFetch(force, item, t) ==
    \/ force
    \/ ~HasEntry(item)
    \/ ~HasSyncedAt(item)
    \/ ~EventsIsList(item)
    \/ (SyncedAtIsDate(item) /\ Age(item, t) >= CACHE_TTL_MS)

\* the cache has a syncedAt that is not a date
SyncedAtUnreadable(item) == HasSyncedAt(item) /\ ~SyncedAtIsDate(item)

\* a call of loadEvents issues one request or none
OneOrNone(c) == loads'[c].fetches \in {0, 1}

\* C4 as stated: a call of loadEvents issues exactly one feed fetch when
\* force is true or the cache is absent, unparsable, without syncedAt, with
\* an events that is not a list, or at least 24 hours old, and none
\* otherwise.
C4_FetchExactlyWhenListed ==
    [][\A c \in Callers :
          Started(c) =>
              /\ OneOrNone(c)
              /\ (loads'[c].fetches = 1)
                    <=> MustFetch(loads'[c].force, Entry(localStorage), now)]_vars

\* C4, amended: a call of loadEvents issues exactly one feed fetch when force
\* is true or the cache is absent, unparsable, without syncedAt, with a
\* syncedAt that is not a valid date, with an events that is not a list, or
\* at least 24 hours old, and none otherwise.
C4_FetchExactlyWhenNotFresh ==
    [][\A c \in Callers :
          Started(c) =>
              /\ OneOrNone(c)
              /\ (loads'[c].fetches = 1)
                    <=> \/ MustFetch(loads'[c].force, Entry(localStorage), now)
                        \/ SyncedAtUnreadable(Entry(localStorage))]_vars

\* init() is waiting for the one fetch it issued over a cached list whose
\* syncedAt is not a date
C4_Witness ==
    /\ last.op = "PageInit"
    /\ ~loads["init"].force
    /\ loads["init"].pc = "fetch"
    /\ loads["init"].fetches = 1
    /\ EventsIsList(Entry(localStorage))
    /\ SyncedAtUnreadable(Entry(localStorage))

\* the payload carries a syncedAt
Carried(payload) == "syncedAt" \in DOMAIN payload /\ payload.syncedAt # EmptyString

\* C5: when the fetch succeeds, appState.allEvents becomes the fetched list
\* and the cache holds {events: that list, syncedAt: payload.syncedAt if the
\* payload carries one, else the current time}.
C5_SuccessStoresFeed ==
    [][(Settles /\ ~FetchFailed(last'))
          => LET payload == last'.body.payload
             IN  /\ elements(appState'.allEvents, seeded') = payload.events.items
                 /\ Entry(localStorage') =
                        JsonText(CacheEntry(payload.events,
                                            IF Carried(payload) THEN payload.syncedAt
                                            ELSE Iso(now)))]_vars

\* a feed that carries a syncedAt of a day and a half ago has just been
\* stored as it came
C5_Witness ==
    /\ last.op = "FetchSettle"
    /\ ~FetchFailed(last)
    /\ Carried(last.body.payload)
    /\ last.body.payload.syncedAt = Iso(T0 - 36 * HourMs)
    /\ Entry(localStorage) = JsonText(CacheEntry(last.body.payload.events, Iso(T0 - 36 * HourMs)))
    /\ elements(appState.allEvents, seeded) = last.body.payload.events.items

\* C6: after a load that ended in the fallback path, every later call of
\* loadEvents with force = false that starts less than 24 hours afterwards,
\* with no forced refresh in between, issues no request.
C6_NoRefetchAfterFallback ==
    [][(/\ last'.op = "PageInit"
        /\ ~loads'["init"].force
        /\ fallbackAt # Never
        /\ now - fallbackAt < CACHE_TTL_MS)
          => loads'["init"].fetches = 0]_vars

----------------------------------------------------------------------------
(* The filter pipeline alone: the page as a load has left it, over every   *)
(* event list, selected state and city anchor, with the state filter and   *)
(* the Clear button in use.                                                *)

\* the anchors appState.city may hold: none, Dallas, one without coordinates
FilterAnchors == {Null, Dallas, [js |-> "object", label |-> "Nowhere"]}

FilterStates == {"all", "TX", "CA"}

\* the page before the caller of loadEvents renders: the array ref is in
\* appState.allEvents and list is what the cache holds
Loaded(ref, list, selectedState, city, message) ==
    [appState |-> [allEvents |-> ref, selectedState |-> selectedState, city |-> city],
     localStorage |-> Store(JsonText(CacheEntry(Array(list), Iso(T0))),
                            IF city = Null THEN NoItem ELSE JsonText(city)),
     ui |-> [InitialUi EXCEPT !.syncLabel = Iso(T0), !.statusMessage = message],
     seeded |-> FALLBACK_EVENTS]

FilterInit ==
    /\ now = T0
    /\ fallbackAt = Never
    /\ fetchedAt = Never
    /\ loads = [c \in Callers |->
                   IF c = "init"
                   THEN [IdleLoad EXCEPT !.pc = "done", !.fetches = 1,
                                         !.outcome = "resolved", !.rendered = TRUE]
                   ELSE IdleLoad]
    /\ geo = <<>>
    /\ page = "ready"
    /\ last = Step("loaded")
    /\ \E selectedState \in FilterStates, city \in FilterAnchors :
          \/ \E list \in SeqsUpTo(EventUniverse, MaxLen) :
                Becomes0(initContinue(Loaded(OwnArray(list), list, selectedState, city,
                                             "Loaded events from daily published feed.")))
          \/ Becomes0(initContinue(Loaded(SeededArray, FALLBACK_EVENTS, selectedState, city,
                                          "Using fallback dataset. Daily feed unavailable right now.")))
    /\ Unvisited

FilterNext ==
    \/ StateChange
    \/ ClearClick

FilterSpec == FilterInit /\ [][FilterNext]_vars

----------------------------------------------------------------------------
(* Properties of the filter pipeline, checked under FilterSpec             *)

\* the full list and what the last render put on the page
AllEvents == elements(appState.allEvents, seeded)
Shown(cards) == {cards[i].src : i \in 1..Len(cards)}

\* the indices of the events of all that have the selected state
StateFiltered(all, selectedState) ==
    {j \in 1..Len(all) : selectedState = "all" \/ all[j].state = selectedState}

\* the distance of an event from the anchor, in hundredths of a mile
Miles(city, event) ==
    haversineMiles(field(city, "lat"), field(city, "lon"),
                   field(event, "lat"), field(event, "lon"))

Limit == Num(SEARCH_RADIUS_MILES * MilesScale)

\* the indices of the events of all that pass the distance step
Near(all, city) ==
    {j \in 1..Len(all) : city = Null \/ Leq(Miles(city, all[j]), Limit)}

\* C7: when the selected state is not "all", every event the pipeline
\* returns has the selected state, and every event of the list with that
\* state that passes the distance step is returned; when it is "all", no
\* event is dropped because of its state.
C7_StateFilter ==
    /\ appState.selectedState # "all" =>
          \A i \in 1..Len(ui.cards) : ui.cards[i].val.state = appState.selectedState
    /\ \A j \in StateFiltered(AllEvents, appState.selectedState) \cap Near(AllEvents, appState.city) :
          j \in Shown(ui.cards)

\* TX is selected over a list that holds events of TX and of another state,
\* and the TX events only are shown
C7_Witness ==
    /\ last.op = "StateChange"
    /\ appState.selectedState = "TX"
    /\ appState.city = Null
    /\ \E j \in 1..Len(AllEvents) : AllEvents[j].state = "CA"
    /\ Len(ui.cards) >= 2
    /\ Len(ui.cards) < Len(AllEvents)
    /\ \A i \in 1..Len(ui.cards) : ui.cards[i].val.state = "TX"

\* C8: with a city anchor, the pipeline returns no event farther than 100
\* miles from the anchor, and an event at exactly 100 miles is kept; after
\* Clear the visible list is exactly the state-filtered events, whatever
\* their coordinates.
C8_Radius ==
    /\ [](appState.city # Null =>
            /\ \A i \in 1..Len(ui.cards) :
                  ~Less(Limit, Miles(appState.city, AllEvents[ui.cards[i].src]))
            /\ \A j \in StateFiltered(AllEvents, appState.selectedState) :
                  Miles(appState.city, AllEvents[j]) = Limit => j \in Shown(ui.cards))
    /\ [][last'.op = "ClearClick" =>
            /\ appState'.city = Null
            /\ Shown(ui'.cards)
                  = StateFiltered(elements(appState'.allEvents, seeded'), appState'.selectedState)
            /\ Len(ui'.cards) = Cardinality(Shown(ui'.cards))]_vars

\* anchored at Dallas, the event at 100.00 miles is shown and the event at
\* 100.01 miles is not
C8_Witness ==
    /\ appState.city = Dallas
    /\ \E j \in 1..Len(AllEvents) : AllEvents[j] = evEdge /\ j \in Shown(ui.cards)
    /\ \E j \in 1..Len(AllEvents) : AllEvents[j] = evFar /\ j \notin Shown(ui.cards)
    /\ Miles(Dallas, evEdge) = Limit
    /\ Less(Limit, Miles(Dallas, evFar))

StartOf(cards, i) == cards[i].val.startDate.iso

\* C9: the list the pipeline returns is sorted non-decreasing by start date,
\* two events with the same start date are in the order they have in the
\* full list, and the list is a permutation of the events that survive the
\* state and distance filters: none twice, none lost.
C9_SortedStablePermutation ==
    /\ \A i, k \in 1..Len(ui.cards) :
          i < k => /\ StartOf(ui.cards, i) <= StartOf(ui.cards, k)
                   /\ StartOf(ui.cards, i) = StartOf(ui.cards, k)
                         => ui.cards[i].src < ui.cards[k].src
    /\ Cardinality(Shown(ui.cards)) = Len(ui.cards)
    /\ Shown(ui.cards) = StateFiltered(AllEvents, appState.selectedState)
                            \cap Near(AllEvents, appState.city)
    /\ \A i \in 1..Len(ui.cards) :
          \A k \in DOMAIN AllEvents[ui.cards[i].src] :
              ui.cards[i].val[k] = AllEvents[ui.cards[i].src][k]

\* three events are shown, a later one that came first in the list behind
\* two of the same day that keep their order
C9_Witness ==
    /\ Len(ui.cards) = 3
    /\ ui.cards[3].src = 1
    /\ StartOf(ui.cards, 1) = StartOf(ui.cards, 2)
    /\ StartOf(ui.cards, 2) < StartOf(ui.cards, 3)
    /\ ui.cards[1].src < ui.cards[2].src

\* C10: a handler that re-renders through the pipeline leaves the full
\* event list, its order and records, the seeded dataset, and the selected
\* state and anchor it rendered with as they were; the records returned are
\* new objects, none of them an element of the list. The list on a rendered
\* page is still the list the load put there and wrote to the cache, and the
\* seeded dataset is still the bundled one.
C10_PipelineFrame ==
    /\ [](/\ \A i \in 1..Len(ui.cards) : ui.cards[i].obj \notin 1..Len(AllEvents)
          /\ Cardinality({ui.cards[i].obj : i \in 1..Len(ui.cards)}) = Len(ui.cards)
          /\ AllEvents = Entry(localStorage).value.events.items
          /\ seeded = FALLBACK_EVENTS)
    /\ [][last'.op \in {"StateChange", "ClearClick"} =>
            /\ appState'.allEvents = appState.allEvents
            /\ elements(appState'.allEvents, seeded') = AllEvents
            /\ seeded' = seeded
            /\ last'.op = "StateChange" =>
                  appState'.city = appState.city /\ appState'.selectedState = ui'.stateFilter
            /\ last'.op = "ClearClick" =>
                  appState'.city = Null /\ appState'.selectedState = appState.selectedState]_vars

\* a render has sorted two events into the other order than the list has
\* them in, and the list is as it was
C10_Witness ==
    /\ last.op = "StateChange"
    /\ Len(ui.cards) >= 2
    /\ ui.cards[1].src > ui.cards[2].src
    /\ ui.cards[1].obj > Len(AllEvents)
    /\ StartOf(cells(AllEvents), ui.cards[1].src) < StartOf(cells(AllEvents), ui.cards[2].src)

----------------------------------------------------------------------------
(* The details view alone: the main page with its cards rendered, over     *)
(* every content of the two session slots; a card is opened or the details *)
(* page is visited by its address, and the view loads.                     *)

\* an event as a feed may publish it, with a list of sections and with a
\* sections that is text
evSectionList == evNear @@ [sections |-> Array(<<Text>>)]
evSectionText == evNear @@ [sections |-> Text]

\* what a session slot may hold when the page is opened
SlotItems ==
    {NoItem, EmptyItem, GarbageItem, JsonText(Null), JsonText(Num(7)),
     JsonText([js |-> "object"]), JsonText(evNear), JsonText(evSectionList),
     JsonText(evSectionText)}

\* the events on the main page
DetailsEvents == {evCA, evSectionList, evSectionText}

DetailsStart ==
    /\ now = T0
    /\ fallbackAt = Never
    /\ fetchedAt = Never
    /\ loads = [c \in Callers |->
                   IF c = "init"
                   THEN [IdleLoad EXCEPT !.pc = "done", !.fetches = 1,
                                         !.outcome = "resolved", !.rendered = TRUE]
                   ELSE IdleLoad]
    /\ geo = <<>>
    /\ page = "ready"
    /\ last = Step("loaded")
    /\ details = NoDetails
    /\ \E a \in SlotItems, b \in SlotItems :
          sessionStorage = [k \in SessionKeys |-> IF k = SELECTED_KEY THEN a ELSE b]
    /\ \E list \in SeqsUpTo(DetailsEvents, MaxLen - 1) :
          Becomes0(initContinue(Loaded(OwnArray(list), list, "all", Null,
                                       "Loaded events from daily published feed.")))

DetailsNext ==
    \/ OpenDetails
    \/ VisitDetails
    \/ DetailsLoad

DetailsSpec == DetailsStart /\ [][DetailsNext]_vars

----------------------------------------------------------------------------
(* Properties of the details view, checked under DetailsSpec               *)

\* C11: after a click on "Open details" of the card of an event, the details
\* view that loads in the same session shows that event, not the not-found
\* view: it reads the slot the main page wrote, and the id of the query is
\* the event's.
C11_OpenedEventIsShown ==
    (page = "details" /\ details.from = "card" /\ details.shown # Pending)
        => /\ details.query = Query(details.clicked.id)
           /\ details.shown = Tournament(jsonValue(details.clicked))

\* the text of the slot the view reads parses to a record whose id is the
\* non-empty id of the query
SlotMatches(raw, query) ==
    /\ raw.raw = "json"
    /\ raw.value.js = "object"
    /\ "id" \in DOMAIN raw.value
    /\ query.has
    /\ query.id # ""
    /\ raw.value.id = query.id

\* C12: the details view shows an event if and only if the slot it reads
\* holds text that parses to a record whose id is identical to a non-empty
\* id of the query, and then it shows that record; in every other case it
\* shows the not-found view.
C12_ShownIffSlotMatches ==
    (page = "details" /\ details.shown # Pending)
        => IF SlotMatches(sessionStorage[slotOf(details.file)], details.query)
           THEN details.shown = Tournament(sessionStorage[slotOf(details.file)].value)
           ELSE details.shown = Missing

----------------------------------------------------------------------------
(* The city anchor: Apply, the geocode requests it issues, Clear and the   *)
(* state filter, over a page that has loaded its events.                   *)

\* the lists the page may have loaded
CityLists == SeqsUpTo({evNear, evFar}, MaxLen - 1)

\* the page once init has loaded one of lists and rendered it, the city
\* key holding one of cities
LoadedPage(cities, lists) ==
    /\ now = T0
    /\ fallbackAt = Never
    /\ fetchedAt = Never
    /\ loads = [c \in Callers |->
                   IF c = "init"
                   THEN [IdleLoad EXCEPT !.pc = "done", !.fetches = 1,
                                         !.outcome = "resolved", !.rendered = TRUE]
                   ELSE IdleLoad]
    /\ geo = <<>>
    /\ page = "ready"
    /\ last = Step("loaded")
    /\ \E city \in cities, list \in lists :
          Becomes0(initContinue(Loaded(OwnArray(list), list, "all", city,
                                       "Loaded events from daily published feed.")))
    /\ Unvisited

CityInit == LoadedPage(FilterAnchors, CityLists)

CityNext ==
    \/ ApplyClick
    \/ GeoSettle
    \/ ClearClick
    \/ StateChange

CitySpec == CityInit /\ [][CityNext]_vars

----------------------------------------------------------------------------
(* Properties of the city anchor, checked under CitySpec                   *)

\* the geocode request settled with a response that carries a result
GeoFound(l) ==
    /\ l.op = "GeoSettle"
    /\ l.response.net # "rejected"
    /\ l.response.ok
    /\ l.body.decoded
    /\ Len(l.body.payload.items) >= 1

\* the anchor the durable store holds
PersistedAnchor(store) == store[CITY_KEY]

\* C13: the anchor of the view state and the persisted anchor change to a
\* location only in a step that settles the geocode request of an Apply
\* click with a response carrying at least one result; an Apply with blank
\* input issues no request; a geocode call that fails or finds nothing
\* leaves both anchors, the event list and the cards as they were and
\* issues no further request.
C13_AnchorOnlyFromGeocode ==
    [][/\ (appState'.city # appState.city /\ appState'.city # Null)
            => GeoFound(last') /\ ~blank(last'.caller)
       /\ (PersistedAnchor(localStorage') # PersistedAnchor(localStorage)
               /\ PersistedAnchor(localStorage') # NoItem)
            => GeoFound(last') /\ ~blank(last'.caller)
       /\ (last'.op = "ApplyClick" /\ blank(ui'.cityInput)) => geo' = geo
       /\ (last'.op = "GeoSettle" /\ ~GeoFound(last'))
            => /\ appState' = appState
               /\ localStorage' = localStorage
               /\ seeded' = seeded
               /\ ui'.cards = ui.cards
               /\ Len(geo') = Len(geo) - 1]_vars

\* a geocode request found nothing while an anchor was in force and cards
\* were shown
C13_Witness ==
    /\ last.op = "GeoSettle"
    /\ last.body = Decoded(Array(<<>>))
    /\ ui.statusMessage = "City not found."
    /\ appState.city = Dallas
    /\ PersistedAnchor(localStorage) = JsonText(Dallas)
    /\ Len(ui.cards) >= 1

----------------------------------------------------------------------------
(* Properties of the feed fetches in flight, checked under FeedSpec        *)

\* the calls of loadEvents whose feed fetch is outstanding
InFlight == {c \in Callers : loads[c].pc = "fetch"}

\* C14: at no moment are two feed fetches in flight at once, and the
\* Refresh button is disabled from its click until the load it started has
\* completed.
C14_OneFetchInFlight ==
    /\ Cardinality(InFlight) <= 1
    /\ "refresh" \in InFlight => ui.refreshDisabled

----------------------------------------------------------------------------
(* The two actions that wait for the network, Apply and Refresh, over a    *)
(* page that has loaded its events.                                        *)

AsyncNext ==
    \/ ApplyClick
    \/ GeoSettle
    \/ RefreshClick
    \/ \E caller \in Callers : FetchSettle(caller)

AsyncInit == LoadedPage({Null, Dallas}, {<<evNear, evFar>>})

AsyncSpec == AsyncInit /\ [][AsyncNext]_vars

\* this step is a click on Apply or on Refresh
Clicks == last'.op \in {"ApplyClick", "RefreshClick"}

\* C15: a click on Apply or on Refresh changes neither the event list, the
\* city anchor, the durable store nor what the page has rendered: the
\* click leaves its request outstanding (an Apply with blank input issues
\* none), and what the action changes it changes when the request settles.
C15_MutationsAfterSettlement ==
    [][Clicks =>
          /\ appState' = appState
          /\ localStorage' = localStorage
          /\ seeded' = seeded
          /\ ui'.cards = ui.cards
          /\ ui'.options = ui.options
          /\ ui'.syncLabel = ui.syncLabel
          /\ last'.op = "RefreshClick" => loads'["refresh"].pc = "fetch"
          /\ (last'.op = "ApplyClick" /\ ~blank(ui'.cityInput)) => Len(geo') = Len(geo) + 1]_vars

\* Refresh has just been clicked over a fresh cache while the request of an
\* Apply is outstanding
C15_Witness ==
    /\ last.op = "RefreshClick"
    /\ loads["refresh"].pc = "fetch"
    /\ Len(geo) >= 1
    /\ Len(ui.cards) >= 1
    /\ cacheIsFresh(readStorage(localStorage, CACHE_KEY), now)

----------------------------------------------------------------------------
(* The city anchor across page sessions: page loads and reloads over every *)
(* content of the city key, with a fresh feed cache.                       *)

AnchorInit ==
    /\ now = T0
    /\ fallbackAt = Never
    /\ fetchedAt = Never
    /\ \E city \in InitialCities :
          Booted(Store(JsonText(CacheEntry(Array(<<evNear, evCA>>), Iso(T0 - 12 * HourMs))), city))
    /\ Unvisited

AnchorNext ==
    \/ PageInit
    \/ Reload
    \/ ApplyClick
    \/ GeoSettle
    \/ ClearClick

AnchorSpec == AnchorInit /\ [][AnchorNext]_vars

\* C16: the city anchor of the view state always equals what a parse of the
\* durable city key yields, so that a reload of the page starts with the
\* anchor the session before ended with: the one applied, or none after
\* Clear.
C16_AnchorEqualsStore ==
    appState.city = readStorage(localStorage, CITY_KEY)

----------------------------------------------------------------------------
(* The durable store as the page finds it: page loads, reloads and Refresh *)
(* clicks over every content of the feed-cache key and of the city key.    *)

StoreSpec == Init /\ [][FeedNext]_vars

\* the item is missing, empty or not JSON
Unreadable(item) == item.raw \in {"none", "empty", "text"}

\* C17: a durable value that is missing or does not parse is treated as
\* absent: with such a feed-cache key a loadEvents that is not forced sends
\* its one fetch, and with such a city key the page has no anchor and what
\* it renders is every event of the list, none dropped for its distance
\* (a list that renderStateFilter can draw: one with a null element is not
\* rendered at all); no call ends in an error.
C17_UnreadableIsAbsent ==
    /\ []((Unreadable(localStorage[CITY_KEY]) =>
              /\ appState.city = Null
              /\ (loads["init"].rendered /\ ~stateListThrows(AllEvents)) =>
                    /\ Shown(ui.cards) = 1..Len(AllEvents)
                    /\ \A i \in 1..Len(ui.cards) : ui.cards[i].val.distance = Null)
          /\ \A c \in Callers : loads[c].outcome # "rejected")
    /\ [][(last'.op = "PageInit" /\ Unreadable(localStorage[CACHE_KEY]))
             => (loads'["init"].pc = "fetch" /\ loads'["init"].fetches = 1)]_vars

\* the page has loaded over a feed-cache key and a city key that held text
\* that is not JSON, and shows the events it fetched
C17_Witness ==
    /\ localStorage[CITY_KEY] = GarbageItem
    /\ last.op = "FetchSettle"
    /\ last.caller = "init"
    /\ loads["init"].fetches = 1
    /\ loads["refresh"].pc = "idle"
    /\ appState.city = Null
    /\ Len(ui.cards) = 2

----------------------------------------------------------------------------
(* haversineMiles alone, utils.js:13-22: two points are drawn and the      *)
(* function is applied to them.                                            *)

Point(lat, lon) == [lat |-> Num(lat), lon |-> Num(lon)]

\* Dallas, Fort Worth, Los Angeles, the origin, Sydney, London, the two
\* poles and a point on the antimeridian
Points ==
    {Point(DallasLat, DallasLon), Point(FortWorthLat, FortWorthLon),
     Point(LosAngelesLat, LosAngelesLon), Point(0, 0),
     Point(0 - (33 * CoordScale + 8688), 151 * CoordScale + 2093),
     Point(51 * CoordScale + 5074, 0 - 1278),
     Point(90 * CoordScale, 0), Point(0 - 90 * CoordScale, 0),
     Point(0, 180 * CoordScale)}

\* a point whose coordinates are missing
NoPoint == [lat |-> Undefined, lon |-> Undefined]

DistanceInit ==
    /\ now = T0
    /\ fallbackAt = Never
    /\ fetchedAt = Never
    /\ localStorage = Store(NoItem, NoItem)
    /\ seeded = FALLBACK_EVENTS
    /\ appState = InitialAppState(Store(NoItem, NoItem))
    /\ ui = InitialUi
    /\ loads = [c \in Callers |-> IdleLoad]
    /\ geo = <<>>
    /\ page = "boot"
    /\ \E p \in Points \cup {NoPoint}, q \in Points \cup {NoPoint} :
          last = [op |-> "points", from |-> p, to |-> q]
    /\ Unvisited

\* haversineMiles(p.lat, p.lon, q.lat, q.lon) is called
Measure ==
    /\ last.op = "points"
    /\ last' = [op |-> "haversineMiles", from |-> last.from, to |-> last.to,
                miles |-> haversineMiles(last.from.lat, last.from.lon,
                                         last.to.lat, last.to.lon)]
    /\ UNCHANGED <<now, localStorage, seeded, appState, ui, loads, geo, page, fallbackAt, fetchedAt>>
    /\ UNCHANGED sessionVars

DistanceSpec == DistanceInit /\ [][Measure]_vars

\* both points have numbers for coordinates
Numeric(p, q) == NoPoint \notin {p, q}

\* C18: the distance from p to q is the distance from q to p, and the
\* distance from a point to itself is zero, for every two points whose
\* coordinates are numbers.
C18_SymmetricAndZero ==
    (last.op = "haversineMiles" /\ Numeric(last.from, last.to))
        => /\ last.miles = haversineMiles(last.to.lat, last.to.lon,
                                          last.from.lat, last.from.lon)
           /\ last.from = last.to => last.miles = Num(0)

\* the distance from Sydney to London has been computed, and it is not zero
C18_Witness ==
    /\ last.op = "haversineMiles"
    /\ last.from = Point(0 - (33 * CoordScale + 8688), 151 * CoordScale + 2093)
    /\ last.to = Point(51 * CoordScale + 5074, 0 - 1278)
    /\ Less(Num(10000 * MilesScale), last.miles)

----------------------------------------------------------------------------
(* The distance each card carries, checked under FilterSpec                *)

\* C20: with a city anchor, every event the pipeline returns carries a
\* distance that is not null, is the distance between the anchor and the
\* coordinates of the event, and is at most 100 miles; with no anchor every
\* returned event carries the distance null and its card has no distance
\* chip.
C20_DistanceOfEachCard ==
    \A i \in 1..Len(ui.cards) :
        IF truthy(appState.city)
        THEN /\ ui.cards[i].val.distance # Null
             /\ ui.cards[i].val.distance = Miles(appState.city, AllEvents[ui.cards[i].src])
             /\ Leq(ui.cards[i].val.distance, Limit)
        ELSE /\ ui.cards[i].val.distance = Null
             /\ ~ui.cards[i].chip

\* with Dallas for anchor the page shows, after a change of the state
\* filter, the event at exactly 100 miles and a nearer one, each with its
\* chip
C20_Witness ==
    /\ last.op = "StateChange"
    /\ appState.city = Dallas
    /\ Len(ui.cards) >= 2
    /\ \E i \in 1..Len(ui.cards) : ui.cards[i].val.distance = Limit
    /\ \E i \in 1..Len(ui.cards) : Less(ui.cards[i].val.distance, Limit)
    /\ \A i \in 1..Len(ui.cards) : ui.cards[i].chip

----------------------------------------------------------------------------
(* The Refresh button, checked under FeedSpec                              *)

\* C19: once the fetch of a Refresh click has settled, whatever its outcome
\* and whatever the elements of the list a valid payload carries, the
\* handler has reached the step that enables the button again: the page is
\* never left with a Refresh load over and the button disabled.
C19_RefreshEnabledAgain ==
    loads["refresh"].pc = "done" => ~ui.refreshDisabled

----------------------------------------------------------------------------
(* The four user actions of bind, app.js:660-710, over a loaded page: the  *)
(* state filter, Apply, Clear and Refresh, with the requests they await.   *)

ActionsInit == LoadedPage({Null}, {<<evNear, evCA>>})

ActionsNext ==
    \/ StateChange
    \/ ApplyClick
    \/ GeoSettle
    \/ ClearClick
    \/ RefreshClick
    \/ \E caller \in Callers : FetchSettle(caller)

ActionsSpec == ActionsInit /\ [][ActionsNext]_vars

\* the event list and the feed cache are as they were, and no feed fetch
\* has been issued
FeedUntouched ==
    /\ appState'.allEvents = appState.allEvents
    /\ seeded' = seeded
    /\ localStorage'[CACHE_KEY] = localStorage[CACHE_KEY]
    /\ loads' = loads

\* the city anchor is as it was, in view state and in the durable store
AnchorUntouched ==
    /\ appState'.city = appState.city
    /\ localStorage'[CITY_KEY] = localStorage[CITY_KEY]

\* C21: each user action changes only its own piece of state. A change of
\* the state filter leaves the anchor, the event list and the feed cache;
\* Clear and Apply, from click to settlement, leave the selected state, the
\* event list and the feed cache; none of the three issues a feed fetch;
\* Refresh, from click to settlement, leaves the selected state and the
\* anchor.
C21_ActionsKeepTheirFrame ==
    [][/\ last'.op = "StateChange" => (FeedUntouched /\ AnchorUntouched)
       /\ last'.op \in {"ClearClick", "ApplyClick", "GeoSettle"}
            => (FeedUntouched /\ appState'.selectedState = appState.selectedState)
       /\ last'.op \in {"RefreshClick", "FetchSettle"}
            => (AnchorUntouched /\ appState'.selectedState = appState.selectedState)]_vars

\* Clear has just been clicked with a state selected, on a page whose
\* Refresh load is over
C21_Witness ==
    /\ last.op = "ClearClick"
    /\ appState.selectedState = "TX"
    /\ appState.city = Null
    /\ loads["refresh"].pc = "done"
    /\ ui.statusMessage = "City filter cleared."
    /\ Len(ui.cards) >= 1

----------------------------------------------------------------------------
(* The event list and the feed cache, checked under FeedSpec               *)

\* a call of loadEvents made by this page is over
SomeLoadOver == \E c \in Callers : loads[c].pc = "done"

\* C22: once a call of loadEvents of the page is over, and whatever calls
\* are still waiting for their fetch, the event list of the view state is
\* the events list of the feed-cache entry, whether the calls hit the
\* cache, fetched with success or fell back, and in whatever order they
\* settled.
C22_ListEqualsCache ==
    SomeLoadOver
        => /\ EventsIsList(Entry(localStorage))
           /\ AllEvents = Entry(localStorage).value.events.items

\* the Refresh load fell back after the load of init had finished, and the
\* fallback list is both in view state and in the cache
C22_Witness ==
    /\ last.op = "FetchSettle"
    /\ last.caller = "refresh"
    /\ last.response.net = "rejected"
    /\ loads["init"].pc = "done"
    /\ loads["refresh"].pc = "done"
    /\ AllEvents = FALLBACK_EVENTS
    /\ Entry(localStorage).value.events.items = FALLBACK_EVENTS

----------------------------------------------------------------------------
(* The state filter and the selected state, checked under ActionsSpec      *)

\* the codes the state filter offers
Offered == {ui.options[i] : i \in 1..Len(ui.options)}

\* C23: once the state filter has been rendered, the selected state of the
\* view state is "all" or one of the codes offered as an option, and the
\* value the dropdown shows is the state the pipeline applies, also after
\* a Refresh whose list no longer holds the state that was selected.
C23_SelectedStateIsOffered ==
    SomeLoadOver
        => /\ appState.selectedState \in {"all"} \cup Offered
           /\ ui.stateFilter = appState.selectedState

----------------------------------------------------------------------------
(* Two Apply requests in flight, checked under CitySpec                    *)

\* the location the Apply handler received from the settlement l
LocationOf(l) == geocodeCity(l.response, l.body).value

\* the last two steps settled, each with a result, the requests of two
\* Apply clicks for different cities that were in flight together, and no
\* other request is left; the city input still holds the later click's text
BothSettled ==
    /\ last.op = "GeoSettle"
    /\ GeoFound(last)
    /\ Len(geo) = 1
    /\ last'.op = "GeoSettle"
    /\ GeoFound(last')
    /\ last'.caller # last.caller
    /\ ui.cityInput \in {last.caller, last'.caller}

\* C24: when Apply is clicked for a city A and then for a city B before the
\* request of A has settled, and both requests succeed with a result, the
\* anchor in force once both have settled, in view state and in the
\* durable store, is the location of B, in whichever order the responses
\* arrive.
C24_LaterClickWins ==
    [][BothSettled =>
          /\ appState'.city =
                LocationOf(IF ui.cityInput = last.caller THEN last ELSE last')
          /\ PersistedAnchor(localStorage') =
                JsonText(jsonValue(LocationOf(IF ui.cityInput = last.caller
                                              THEN last ELSE last')))]_vars

----------------------------------------------------------------------------
(* The coordinates of the anchor, checked under AnchorSpec                 *)

\* x is a number other than NaN
IsNumber(x) == x.js = "number" /\ ~isNaN(x)

\* C25: whenever the city anchor of the view state is not null it is a
\* record whose latitude and longitude are numbers other than NaN, whether
\* it was read from the durable store when the page loaded or came from a
\* geocode response.
C25_AnchorHasCoordinates ==
    appState.city # Null
        => /\ appState.city.js = "object"
           /\ IsNumber(field(appState.city, "lat"))
           /\ IsNumber(field(appState.city, "lon"))

----------------------------------------------------------------------------
(* The cache after a successful fetch, checked under FeedSpec              *)

\* C26: after a load that ended with a successful fetch, every later call
\* of loadEvents with force = false that starts less than 24 hours after
\* that fetch issues no request and takes the list from the cache,
\* whatever syncedAt the payload carried.
C26_NoRefetchAfterSuccess ==
    [][(/\ last'.op = "PageInit"
        /\ ~loads'["init"].force
        /\ fetchedAt # Never
        /\ now - fetchedAt < CACHE_TTL_MS)
          => /\ loads'["init"].fetches = 0
             /\ elements(appState'.allEvents, seeded') = Entry(localStorage).value.events.items]_vars

====
